---- MODULE Spec2Model ----
(***************************************************************************)
(* Model of the de-identification scripts of deid-poc:                     *)
(*   pipeline_batch.py    main, blur_faces, submit_transcription_job,      *)
(*                        wait_for_transcript, redact_phi                  *)
(*   pipeline_recover.py  main, redact_phi                                 *)
(*   pipeline.py          main, transcribe_audio, redact_phi               *)
(* A run executes one of the three scripts (prog).  Every call of an         *)
(* external collaborator (yt-dlp/ffmpeg, blob storage, the speech service, *)
(* the de-identification service, OpenCV) is one step whose answer is      *)
(* drawn from a small set.  Texts are sequences of one-character strings.  *)
(***************************************************************************)
EXTENDS Integers, Sequences, FiniteSets, TLC

\* ------------------------------------------------------------------ bounds
\* chunk_size of redact_phi, scaled down from 5000 so that short texts split
chunk_size == 2
\* largest number of phrases in a transcription result
MaxPhrases == 2
\* largest number of frames in the downloaded video
MaxFrames == 2
\* largest number of status checks the remote job takes to become terminal
MaxPolls == 4
\* largest number of recognized events of one recognition session
MaxEvents == 3

\* ------------------------------------------------------------ value spaces
None == "None"
\* an optional text (a transcript that may be None): <<>> is None, <<t>> is t
NoText == <<>>
Some(t) == <<t>>

\* display texts a recognized phrase can carry ("p" stands for a PHI character)
Displays ==
  { <<>>, <<"a">>, <<"p">>, <<"a", "a", "p">> }

RECURSIVE SeqsUpTo(_, _)
\* all sequences over S of length at most n
SeqsUpTo(S, n) ==
  IF n = 0 THEN { <<>> }
  ELSE LET shorter == SeqsUpTo(S, n - 1)
       IN  shorter \cup { Append(s, x) : s \in { t \in shorter : Len(t) = n - 1 }, x \in S }

\* the JSON documents the transcription content URL can hold:
\*   shape "A": phrases carry "display"; shape "B": phrases carry "nBest";
\*   shape "X": phrases carry neither; shape "none": no combinedRecognizedPhrases
\*   shape "mixed": the first phrase carries "display", a later one does not;
\*   shape "B_empty": phrases carry "nBest", which is an empty list;
\*   shape "not_json": the body is not JSON (an error page)
\* (an empty phrase list has no shape: it is listed once, under "A")
Datas ==
  [shape : {"A"}, phrases : SeqsUpTo(Displays, MaxPhrases)]
    \cup [shape : {"B", "X"}, phrases : SeqsUpTo(Displays, MaxPhrases) \ { <<>> }]
    \cup { [shape |-> "none", phrases |-> <<>>] }
    \cup { [shape |-> "mixed", phrases |-> << <<"a">>, <<"a">> >>],
           [shape |-> "B_empty", phrases |-> << <<>> >>],
           [shape |-> "not_json", phrases |-> <<>>] }

\* the texts a RecognizedSpeech event can carry
Utterances == { <<"a">>, <<"p", "a">> }

\* the kinds listed by the result manifest of a succeeded job, entry by entry
\* (every entry has a contentUrl of its own)
Manifests ==
  { <<>>, <<"TranscriptionReport">>, <<"TranscriptionReport", "Transcription">>,
    <<"Transcription", "TranscriptionReport", "Transcription">> }

\* ------------------------------------------------------------- pure helpers
RECURSIVE join(_, _)
\* sep.join(parts) of Python, for sequences of texts
join(sep, parts) ==
  IF parts = <<>> THEN <<>>
  ELSE IF Len(parts) = 1 THEN parts[1]
  ELSE parts[1] \o sep \o join(sep, Tail(parts))

\* faulty variant of slice: the upper index is taken as inclusive of b - 1
\* only, so every full chunk loses its last character
slice_one_short(text, a, b) ==
  LET hi == IF b - 1 < Len(text) THEN b - 1 ELSE Len(text)
  IN  IF a >= hi THEN <<>> ELSE SubSeq(text, a + 1, hi)

\* text[a:b] of Python for 0 <= a, a <= b: clipped to the text
slice(text, a, b) ==
  LET hi == IF b < Len(text) THEN b ELSE Len(text)
  IN  IF a >= hi THEN <<>> ELSE SubSeq(text, a + 1, hi)

RECURSIVE range_inclusive(_, _, _)
\* faulty variant of range: the stop offset is included
range_inclusive(start, stop, step) ==
  IF start > stop THEN <<>>
  ELSE <<start>> \o range_inclusive(start + step, stop, step)

RECURSIVE range(_, _, _)
\* list(range(start, stop, step)) of Python, step > 0
range(start, stop, step) ==
  IF start >= stop THEN <<>>
  ELSE <<start>> \o range(start + step, stop, step)

\* faulty variant of split: every chunk runs one character into the next one
split_overlapping(text) ==
  LET offs == range(0, Len(text), chunk_size)
  IN  [k \in 1..Len(offs) |-> slice(text, offs[k], offs[k] + chunk_size + 1)]

\* chunks = [text[i:i+chunk_size] for i in range(0, len(text), chunk_size)]
split(text) ==
  LET offs == range(0, Len(text), chunk_size)
  IN  [k \in 1..Len(offs) |-> slice(text, offs[k], offs[k] + chunk_size)]

RECURSIVE deidentify_text(_)
\* what the de-identification service answers for one chunk when it answers:
\* every PHI character is replaced by a two-character tag
deidentify_text(chunk) ==
  IF chunk = <<>> THEN <<>>
  ELSE (IF Head(chunk) = "p" THEN <<"[", "]">> ELSE <<Head(chunk)>>)
         \o deidentify_text(Tail(chunk))

\* Python truthiness of a transcript: None and "" are both falsy
truthy(t) == t # NoText /\ t[1] # <<>>

\* ------------------------------------------------------------------- state
VARIABLES
  prog,            \* the script being run: "batch", "recover" or "pipeline"
  pc,              \* position of main (inside the function it is calling)
  outcome,         \* how main ended: "running" until it ends
  log,             \* the collaborator calls and file writes made so far, in order
  files,           \* the working directory: file name -> content
  video_path,      \* main: result of download_video_and_extract_audio
  audio_path,
  sas_url,         \* main: result of upload_to_blob
  job_url,         \* main: result of submit_transcription_job
  submit_status,   \* submit_transcription_job: response.status_code (0 before the POST)
  total_frames,    \* blur_faces: frames the opened capture holds
  frame_count,     \* blur_faces: frames read and written so far
  frames_read,     \* blur_faces: the frames cap.read() has returned, in order
  out,             \* blur_faces: the frames written to the VideoWriter
  blur_ret,        \* what blur_faces returned ("pending" before it returns)
  detect_failed,   \* blur_faces: the frames for which the face detector raised
  polls,           \* wait_for_transcript: status checks made
  status,          \* wait_for_transcript: the last status seen
  statuses,        \* wait_for_transcript: every status seen, in order
  manifest,        \* wait_for_transcript: the kinds of the files manifest fetched
  fetched_entry,   \* wait_for_transcript: index of the manifest entry whose
                   \* contentUrl was fetched (0: none)
  data,            \* the transcription document fetched (wait_for_transcript, recover main)
  transcript,      \* main: result of wait_for_transcript / full_text of recover
  text,            \* redact_phi: its argument
  chunks,          \* redact_phi: chunks
  redacted_chunks, \* redact_phi: redacted_chunks
  chunk_i,         \* redact_phi: the loop index i
  sent,            \* the chunk indices sent to the de-identification service
  deid_failed,     \* the chunk indices for which the service call raised
  redacted_text,   \* main: result of redact_phi
  done,            \* transcribe_audio: the flag set by stop_cb
  recognized,      \* transcribe_audio: the list transcript filled by recognized_cb
  events,          \* the events the recognizer has fired, in order
  session          \* the recognizer: "idle", "running" or "stopped"

vars ==
  << prog, pc, outcome, log, files, video_path, audio_path, sas_url, job_url,
     submit_status, total_frames, frame_count, frames_read, out, blur_ret,
     detect_failed, polls, status, statuses, manifest, fetched_entry, data,
     transcript, text, chunks, redacted_chunks, chunk_i, sent, deid_failed,
     redacted_text, done, recognized, events, session >>

mainVars  == << video_path, audio_path, sas_url, job_url, submit_status >>
blurVars  == << total_frames, frame_count, frames_read, out, blur_ret, detect_failed >>
waitVars  == << polls, status, statuses, manifest, fetched_entry, data >>
redactVars == << text, chunks, redacted_chunks, chunk_i, sent, deid_failed >>
streamVars == << done, recognized, events, session >>

\* file names used by the scripts
VIDEO    == "batch_media.mp4"
VIDEO_ADAPTED == "batch_media.webm"
AUDIO    == "batch_media.wav"
BLURRED  == "batch_media_blurred_silent.mp4"
ORIGINAL == "batch_transcript_original.txt"
REDACTED == "batch_transcript_redacted.txt"
FINAL    == "final_deidentified_video.mp4"

\* no transcription document fetched yet
NoData == [shape |-> "unfetched", phrases |-> <<>>]

\* open(name, "w").write(content), or a tool creating the file
write(fs, name, content) ==
  [n \in DOMAIN fs \cup {name} |-> IF n = name THEN content ELSE fs[n]]

Init ==
  /\ prog \in {"batch", "recover", "pipeline"}
  /\ pc = CASE prog = "batch"   -> "main"
            [] prog = "recover" -> "recover_main"
            [] OTHER            -> "pipeline_main"
  /\ outcome = "running"
  /\ log = <<>>
  /\ files = <<>>
  /\ video_path = None /\ audio_path = None /\ sas_url = None /\ job_url = None
  /\ submit_status = 0
  /\ total_frames = 0 /\ frame_count = 0 /\ frames_read = <<>> /\ out = <<>>
  /\ blur_ret = "pending" /\ detect_failed = {}
  /\ polls = 0 /\ status = None /\ statuses = <<>> /\ manifest = <<>> /\ data = NoData
  /\ fetched_entry = 0
  /\ transcript = NoText
  /\ text = <<>> /\ chunks = <<>> /\ redacted_chunks = <<>> /\ chunk_i = 0
  /\ sent = <<>> /\ deid_failed = {}
  /\ redacted_text = NoText
  /\ done = FALSE /\ recognized = <<>> /\ events = <<>> /\ session = "idle"

\* main ends: by return, by falling off its end, or by an uncaught exception
ends(how) == pc' = "done" /\ outcome' = how

\* ------------------------------------------------ pipeline_batch.py: main
\* line 224: the credentials check
main_credentials ==
  /\ prog = "batch" /\ pc = "main"
  /\ \E all_set \in BOOLEAN :
       IF all_set THEN pc' = "download" /\ outcome' = outcome
                  ELSE ends("missing_credentials")
  /\ UNCHANGED << prog, streamVars, log, files, mainVars, blurVars, waitVars, transcript,
                  redactVars, redacted_text >>

\* download_video_and_extract_audio: what it returns and leaves on disk when
\* yt-dlp and ffmpeg behave as r says and yt-dlp wrote the video as written
\* (lines 39-43: a name other than batch_media.mp4 is looked up and used)
download_video_and_extract_audio(r, written) ==
  CASE r = "ok" ->
         [video_path |-> written, audio_path |-> AUDIO,
          files |-> write(write(files, written, "video"), AUDIO, "audio")]
    [] r = "extract_failed" ->
         [video_path |-> None, audio_path |-> None,
          files |-> write(files, written, "video")]
    [] OTHER ->
         [video_path |-> None, audio_path |-> None, files |-> files]

\* faulty variant of after_download: the missing video path is not looked at
after_download_unchecked(vp) == "upload"

\* line 232: if not video_path: return
after_download(vp) == IF vp = None THEN "done" ELSE "upload"

\* lines 231-232
main_download ==
  /\ prog = "batch" /\ pc = "download"
  /\ \E r \in {"ok", "download_failed", "extract_failed"} :
     \E written \in {VIDEO, VIDEO_ADAPTED} :
       LET got == download_video_and_extract_audio(r, written)
       IN  /\ video_path' = got.video_path
           /\ audio_path' = got.audio_path
           /\ files' = got.files
           /\ log' = Append(log, "download")
           /\ pc' = after_download(got.video_path)
           /\ outcome' = IF after_download(got.video_path) = "done"
                         THEN "acquisition_failed" ELSE outcome
  /\ UNCHANGED << prog, streamVars, sas_url, job_url, submit_status, blurVars, waitVars,
                  transcript, redactVars, redacted_text >>

\* upload_to_blob: the SAS URL, or None when anything in it raised
upload_to_blob(ok) == IF ok THEN "sas_url" ELSE None

\* line 236
main_upload ==
  /\ prog = "batch" /\ pc = "upload"
  /\ \E ok \in BOOLEAN : sas_url' = upload_to_blob(ok)
  /\ log' = Append(log, "upload")
  /\ pc' = "submit"
  /\ UNCHANGED << prog, streamVars, outcome, files, video_path, audio_path, job_url,
                  submit_status, blurVars, waitVars, transcript, redactVars,
                  redacted_text >>

\* the status codes the speech service can answer a submission with, whatever
\* the content URL is
submit_responses(audio_url) == {200, 201, 400, 500}

\* faulty variant of submit_transcription_job: 200 is taken for the success status
submit_transcription_job_expects_200(status_code) ==
  IF status_code # 200 THEN None ELSE "job_url"

\* submit_transcription_job, lines 159-166
submit_transcription_job(status_code) ==
  IF status_code # 201 THEN None ELSE "job_url"

\* line 237
main_submit ==
  /\ prog = "batch" /\ pc = "submit"
  /\ \E code \in submit_responses(sas_url) :
       /\ submit_status' = code
       /\ job_url' = submit_transcription_job(code)
  /\ log' = Append(log, "submit")
  /\ pc' = "blur_faces"
  /\ UNCHANGED << prog, streamVars, outcome, files, video_path, audio_path, sas_url, blurVars,
                  waitVars, transcript, redactVars, redacted_text >>

\* -------------------------------------------- pipeline_batch.py: blur_faces
\* faulty variant of after_blur: main goes to the merge without step 4
after_blur_skips_wait(ret) == "merge"

\* lines 243-248: main goes on to step 4 whatever blur_faces returned
after_blur(ret) == "wait_for_transcript"

\* lines 72-85: open the capture; None when it cannot be opened
blur_faces_open ==
  /\ prog = "batch" /\ pc = "blur_faces"
  /\ \E opened \in BOOLEAN :
       IF opened
       THEN /\ \E n \in 0..MaxFrames : total_frames' = n
            /\ files' = write(files, BLURRED, <<>>)
            /\ log' = Append(log, "blur_open")
            /\ pc' = "blur_loop"
            /\ blur_ret' = blur_ret
       ELSE /\ total_frames' = total_frames
            /\ files' = files
            /\ log' = log \o <<"blur_open", "blur_return">>
            /\ blur_ret' = None
            /\ pc' = after_blur(None)
  /\ UNCHANGED << prog, streamVars, outcome, mainVars, frame_count, frames_read, out,
                  detect_failed, waitVars,
                  transcript, redactVars, redacted_text >>

\* the pixel positions of a frame
Pixels == {1, 2}

\* line 91: the pixels of the k-th frame as cap.read() returns them
frame_pixels(k) == [p \in Pixels |-> <<k, p, "raw">>]

\* the pixel positions of the region the detector reports when it finds a face
FaceRegion == {1}

\* line 97: the regions detectMultiScale returns
detectMultiScale(det) == IF det = "face" THEN {FaceRegion} ELSE {}

\* faulty variant of blur_frame: the whole frame is blurred when a face is found
blur_frame_whole(k, faces) ==
  [src |-> k, blurred |-> faces # {}, faces |-> faces,
   px |-> [p \in Pixels |-> IF faces # {} THEN <<k, p, "blurred">>
                                          ELSE frame_pixels(k)[p]]]

\* lines 99-103: the frame as written, given the regions the detector found in
\* it: the pixels of every region are replaced by their blur, in place
blur_frame(k, faces) ==
  [src |-> k, blurred |-> faces # {}, faces |-> faces,
   px |-> [p \in Pixels |-> IF \E r \in faces : p \in r THEN <<k, p, "blurred">>
                                                       ELSE frame_pixels(k)[p]]]

\* faulty variant of write_frame: a frame without a face is not written
write_frame_if_blurred(written, frame) ==
  IF frame.blurred THEN Append(written, frame) ELSE written

\* line 105: out.write(frame)
write_frame(written, frame) == Append(written, frame)

\* lines 90-107, one iteration: read a frame, detect, blur, write.  The
\* detector finds no face, finds one, or raises (cv2.error), which nothing catches
blur_faces_frame ==
  /\ prog = "batch" /\ pc = "blur_loop" /\ frame_count < total_frames
  /\ frames_read' = Append(frames_read, Len(frames_read) + 1)
  /\ \E det \in {"none", "face", "error"} :
       IF det = "error"
       THEN /\ ends("crashed")
            /\ detect_failed' = detect_failed \cup {frames_read'[Len(frames_read')]}
            /\ UNCHANGED << frame_count, out, files >>
       ELSE /\ out' = write_frame(out, blur_frame(frames_read'[Len(frames_read')],
                                                  detectMultiScale(det)))
            /\ frame_count' = frame_count + 1
            /\ files' = write(files, BLURRED, out')
            /\ UNCHANGED << pc, outcome, detect_failed >>
  /\ UNCHANGED << prog, streamVars, log, mainVars, total_frames, blur_ret, waitVars, transcript,
                  redactVars, redacted_text >>

\* lines 92-93 and 114-118: the read fails at the end of the input
blur_faces_close ==
  /\ prog = "batch" /\ pc = "blur_loop" /\ frame_count = total_frames
  /\ blur_ret' = BLURRED
  /\ log' = Append(log, "blur_return")
  /\ pc' = after_blur(BLURRED)
  /\ UNCHANGED << prog, streamVars, outcome, files, mainVars, total_frames, frame_count,
                  frames_read, out, detect_failed,
                  waitVars, transcript, redactVars, redacted_text >>

\* ---------------------------------- pipeline_batch.py: wait_for_transcript
\* the statuses the service can report at the next check: a job may still be
\* NotStarted at the first check, is Running after that, and becomes terminal
\* within MaxPolls checks
poll_responses(n) ==
  IF n + 1 < MaxPolls
  THEN (IF n = 0 THEN {"NotStarted"} ELSE {}) \cup {"Running", "Succeeded", "Failed"}
  ELSE {"Succeeded", "Failed"}

\* faulty variant of after_status: the results are fetched for a Failed job too
after_status_fetches_failed(s) ==
  CASE s = "Succeeded" -> "wait_files"
    [] s = "Failed"    -> "wait_files"
    [] OTHER           -> "wait_sleep"

\* faulty variant of after_status: the next check follows without the sleep
after_status_busy_spin(s) ==
  CASE s = "Succeeded" -> "wait_files"
    [] s = "Failed"    -> "return"
    [] OTHER           -> "wait_for_transcript"

\* faulty variant of after_status: the wait is given up on a non-terminal status
after_status_gives_up(s) ==
  CASE s = "Succeeded" -> "wait_files"
    [] OTHER           -> "return"

\* lines 176-185: where the loop goes on a status
after_status(s) ==
  CASE s = "Succeeded" -> "wait_files"
    [] s = "Failed"    -> "return"
    [] OTHER           -> "wait_sleep"

\* faulty variant of after_wait: the text goes to redaction without being saved
after_wait_unsaved(t) == IF t # <<>> /\ t[1] # <<>> THEN "redact_phi" ELSE "merge"

\* faulty variant of after_wait: main returns when there is no transcript
after_wait_returns(t) == IF t # <<>> /\ t[1] # <<>> THEN "write_original" ELSE "done"

\* line 249: if transcript: ... ; else straight to step 6
after_wait(t) == IF truthy(t) THEN "write_original" ELSE "merge"

\* lines 173-184: one status check.  requests.get(None) raises MissingSchema,
\* which neither wait_for_transcript nor main catches
wait_status_check ==
  /\ prog = "batch" /\ pc = "wait_for_transcript"
  /\ IF job_url = None
     THEN /\ ends("crashed")
          /\ log' = Append(log, "status_check_no_job")
          /\ UNCHANGED << waitVars, transcript >>
     ELSE \E s \in poll_responses(polls) :
            /\ polls' = polls + 1
            /\ status' = s
            /\ statuses' = Append(statuses, s)
            /\ UNCHANGED << manifest, fetched_entry, data >>
            /\ IF after_status(s) = "return"
               THEN /\ transcript' = NoText
                    /\ log' = log \o <<"status_check", "wait_return">>
                    /\ pc' = after_wait(NoText)
               ELSE /\ transcript' = transcript
                    /\ log' = Append(log, "status_check")
                    /\ pc' = after_status(s)
            /\ outcome' = outcome
  /\ UNCHANGED << prog, streamVars, files, mainVars, blurVars, redactVars, redacted_text >>

\* line 185: time.sleep(10)
wait_sleep ==
  /\ prog = "batch" /\ pc = "wait_sleep"
  /\ log' = Append(log, "sleep")
  /\ pc' = "wait_for_transcript"
  /\ UNCHANGED << prog, streamVars, outcome, files, mainVars, blurVars, waitVars, transcript,
                  redactVars, redacted_text >>

\* line 193: is there a manifest entry of kind "Transcription"
has_transcription(kinds) ==
  \E k \in 1..Len(kinds) : kinds[k] = "Transcription"

\* faulty variant of first_transcription: the last such entry is taken
last_transcription(kinds) ==
  IF has_transcription(kinds)
  THEN CHOOSE k \in 1..Len(kinds) :
         /\ kinds[k] = "Transcription"
         /\ \A j \in (k + 1)..Len(kinds) : kinds[j] # "Transcription"
  ELSE 0

\* lines 192-193: the entry the loop over the manifest stops at, the first of
\* kind "Transcription" (0 when the loop runs to its end)
first_transcription(kinds) ==
  IF has_transcription(kinds)
  THEN CHOOSE k \in 1..Len(kinds) :
         /\ kinds[k] = "Transcription"
         /\ \A j \in 1..(k - 1) : kinds[j] # "Transcription"
  ELSE 0

\* faulty variant of extract_display: the displays are joined without a space
extract_display_unspaced(doc) ==
  IF doc.shape \in {"none", "not_json"} \/ (doc.shape # "A" /\ doc.phrases # <<>>)
  THEN [raised |-> TRUE, value |-> NoText]
  ELSE [raised |-> FALSE, value |-> Some(join(<<>>, doc.phrases))]

\* lines 194-195: the text read from the content document, or the exception
\* raised for a body that is not JSON, a document without
\* "combinedRecognizedPhrases" or a phrase without "display"
extract_display(doc) ==
  IF doc.shape \in {"none", "not_json"} \/ (doc.shape # "A" /\ doc.phrases # <<>>)
  THEN [raised |-> TRUE, value |-> NoText]
  ELSE [raised |-> FALSE, value |-> Some(join(<<" ">>, doc.phrases))]

\* lines 188-196: fetch the manifest and the transcription document
wait_files ==
  /\ prog = "batch" /\ pc = "wait_files"
  /\ \E m \in Manifests :
       /\ manifest' = m
       /\ IF has_transcription(m)
          THEN \E d \in Datas :
                 LET got == extract_display(d)
                 IN  /\ data' = d
                     /\ fetched_entry' = first_transcription(m)
                     /\ IF got.raised
                        THEN /\ ends("crashed")
                             /\ log' = log \o <<"fetch_files", "fetch_content">>
                             /\ transcript' = transcript
                        ELSE /\ transcript' = got.value
                             /\ log' = log \o <<"fetch_files", "fetch_content",
                                                "wait_return">>
                             /\ pc' = after_wait(got.value)
                             /\ outcome' = outcome
          ELSE /\ data' = data
               /\ fetched_entry' = first_transcription(m)
               /\ transcript' = NoText
               /\ log' = log \o <<"fetch_files", "wait_return">>
               /\ pc' = after_wait(NoText)
               /\ outcome' = outcome
  /\ UNCHANGED << prog, streamVars, files, mainVars, blurVars, polls, status, statuses,
                  redactVars, redacted_text >>

\* ------------------- redact_phi (pipeline_batch.py and pipeline_recover.py)
\* lines 204-206 (22-24): split the argument into chunks
redact_phi_split ==
  /\ pc = "redact_phi"
  /\ text' = transcript[1]
  /\ chunks' = split(transcript[1])
  /\ redacted_chunks' = <<>>
  /\ chunk_i' = 0
  /\ log' = Append(log, "redact_begin")
  /\ pc' = "redact_loop"
  /\ UNCHANGED << prog, streamVars, outcome, files, mainVars, blurVars, waitVars, transcript,
                  sent, deid_failed, redacted_text >>

\* faulty variant of on_exception: the chunks redacted so far are kept and
\* the rest of the text follows them unredacted
on_exception_partial(txt, so_far) ==
  join(<<>>, so_far) \o slice(txt, Len(so_far) * chunk_size, Len(txt))

\* lines 213-215 (35-37): what redact_phi returns once a call has raised
on_exception(txt, so_far) == txt

\* faulty variant of append_redacted: the newest result is put first
prepend_redacted(so_far, r) == <<r>> \o so_far

\* line 210 (30): redacted_chunks.append(response.output_text)
append_redacted(so_far, r) == Append(so_far, r)

\* lines 208-210 (28-30), one iteration: send chunk i to the service, which
\* answers or raises
redact_phi_chunk ==
  /\ pc = "redact_loop" /\ chunk_i < Len(chunks)
  /\ sent' = Append(sent, chunk_i)
  /\ \E answered \in BOOLEAN :
       IF answered
       THEN /\ redacted_chunks' =
                 append_redacted(redacted_chunks, deidentify_text(chunks[chunk_i + 1]))
            /\ chunk_i' = chunk_i + 1
            /\ UNCHANGED << deid_failed, redacted_text, pc, log >>
       ELSE /\ deid_failed' = deid_failed \cup {chunk_i}
            /\ redacted_text' = Some(on_exception(text, redacted_chunks))
            /\ log' = Append(log, "redact_return")
            /\ pc' = "write_redacted"
            /\ UNCHANGED << redacted_chunks, chunk_i >>
  /\ UNCHANGED << prog, streamVars, outcome, files, mainVars, blurVars, waitVars, transcript,
                  text, chunks >>

\* line 212 (33): return "".join(redacted_chunks)
redact_phi_join ==
  /\ pc = "redact_loop" /\ chunk_i = Len(chunks)
  /\ redacted_text' = Some(join(<<>>, redacted_chunks))
  /\ log' = Append(log, "redact_return")
  /\ pc' = "write_redacted"
  /\ UNCHANGED << prog, streamVars, outcome, files, mainVars, blurVars, waitVars, transcript,
                  redactVars >>

\* ------------------------------------- pipeline_batch.py: main, steps 4-6
\* line 250
main_write_original ==
  /\ prog = "batch" /\ pc = "write_original"
  /\ files' = write(files, ORIGINAL, transcript[1])
  /\ log' = Append(log, "write_original")
  /\ pc' = "redact_phi"
  /\ UNCHANGED << prog, streamVars, outcome, mainVars, blurVars, waitVars, transcript,
                  redactVars, redacted_text >>

\* line 255
main_write_redacted ==
  /\ prog = "batch" /\ pc = "write_redacted"
  /\ files' = write(files, REDACTED, redacted_text[1])
  /\ log' = Append(log, "write_redacted")
  /\ pc' = "merge"
  /\ UNCHANGED << prog, streamVars, outcome, mainVars, blurVars, waitVars, transcript,
                  redactVars, redacted_text >>

\* lines 264-267: can the ffmpeg merge succeed: only with both inputs on disk
ffmpeg_results(fs) ==
  IF BLURRED \in DOMAIN fs /\ AUDIO \in DOMAIN fs THEN BOOLEAN ELSE {FALSE}

\* lines 262-269: the merge (its exit status is not looked at) and the last print
main_merge ==
  /\ prog = "batch" /\ pc = "merge"
  /\ \E merged \in ffmpeg_results(files) :
       files' = IF merged
                THEN write(files, FINAL, [video |-> files[BLURRED], audio |-> files[AUDIO]])
                ELSE files
  /\ log' = Append(log, "merge")
  /\ ends("completed")
  /\ UNCHANGED << prog, streamVars, mainVars, blurVars, waitVars, transcript, redactVars,
                  redacted_text >>

\* ---------------------------------------------- pipeline_recover.py: main
\* lines 48-71: full_text, or the reason main ends without one.  full_text
\* is "" from line 52 on, so that is its value when main returns early or an
\* extraction raises (IndexError on an empty nBest, KeyError on a later
\* phrase without "display"); response.json() of line 48 raises before it
parse_transcript(doc) ==
  CASE doc.shape = "not_json" -> [returned |-> "crashed", value |-> NoText]
    [] doc.shape = "none" -> [returned |-> "no_phrases", value |-> Some(<<>>)]
    [] doc.shape = "X" /\ doc.phrases # <<>> ->
         [returned |-> "unknown_structure", value |-> Some(<<>>)]
    [] doc.shape \in {"mixed", "B_empty"} ->
         [returned |-> "crashed", value |-> Some(<<>>)]
    [] OTHER -> [returned |-> "no", value |-> Some(join(<<" ">>, doc.phrases))]

\* lines 47-71
recover_main ==
  /\ prog = "recover" /\ pc = "recover_main"
  /\ \E d \in Datas :
       LET got == parse_transcript(d)
       IN  /\ data' = d
           /\ transcript' = got.value
           /\ IF got.returned = "no"
              THEN pc' = "write_original" /\ outcome' = outcome
              ELSE ends(got.returned)
  /\ log' = Append(log, "download_json")
  /\ UNCHANGED << prog, streamVars, files, mainVars, blurVars, polls, status, statuses, manifest,
                  fetched_entry,
                  redactVars, redacted_text >>

\* lines 75-76
recover_write_original ==
  /\ prog = "recover" /\ pc = "write_original"
  /\ files' = write(files, ORIGINAL, transcript[1])
  /\ log' = Append(log, "write_original")
  /\ pc' = "redact_phi"
  /\ UNCHANGED << prog, streamVars, outcome, mainVars, blurVars, waitVars, transcript,
                  redactVars, redacted_text >>

\* lines 84-87
recover_write_redacted ==
  /\ prog = "recover" /\ pc = "write_redacted"
  /\ files' = write(files, REDACTED, redacted_text[1])
  /\ log' = Append(log, "write_redacted")
  /\ ends("completed")
  /\ UNCHANGED << prog, streamVars, mainVars, blurVars, waitVars, transcript, redactVars,
                  redacted_text >>

\* ------------------------------------------------------ pipeline.py: main
STREAM_ORIGINAL == "transcript_original.txt"
STREAM_REDACTED == "transcript_redacted.txt"
STREAM_AUDIO    == "downloaded_audio.wav"
STREAM_AUDIO_ADAPTED == "downloaded_audio.webm.wav"

\* lines 128-138: the credentials check and download_audio, which returns
\* downloaded_audio.wav or, when that is missing, the first file named
\* downloaded_audio*.wav (lines 38-42)
pipeline_main ==
  /\ prog = "pipeline" /\ pc = "pipeline_main"
  /\ \E r \in {"ok", "missing_credentials", "acquisition_failed"} :
       IF r = "ok"
       THEN /\ pc' = "transcribe_audio" /\ outcome' = outcome
            /\ \E written \in {STREAM_AUDIO, STREAM_AUDIO_ADAPTED} :
                 /\ audio_path' = written
                 /\ files' = write(files, written, "audio")
       ELSE /\ ends(r)
            /\ UNCHANGED << audio_path, files >>
  /\ UNCHANGED << prog, log, video_path, sas_url, job_url, submit_status, blurVars,
                  waitVars, transcript, redactVars, redacted_text, streamVars >>

\* -------------------------------------------- pipeline.py: transcribe_audio
\* lines 61-80: done = False, transcript = [], the callbacks are connected and
\* continuous recognition is started
transcribe_start ==
  /\ prog = "pipeline" /\ pc = "transcribe_audio"
  /\ done' = FALSE /\ recognized' = <<>>
  /\ session' = "running"
  /\ pc' = "listening"
  /\ UNCHANGED << prog, outcome, log, files, mainVars, blurVars, waitVars,
                  transcript, redactVars, redacted_text, events >>

\* faulty variant of recognized_cb: the text of every event is appended
recognized_cb_any_reason(so_far, reason, txt) == Append(so_far, txt)

\* lines 69-74: recognized_cb
recognized_cb(so_far, reason, txt) ==
  IF reason = "RecognizedSpeech" THEN Append(so_far, txt) ELSE so_far

\* the recognizer fires a recognized event, on its own thread: speech with its
\* text, or NoMatch (whose text is empty)
sdk_recognized ==
  /\ prog = "pipeline" /\ session = "running"
  /\ Cardinality({k \in 1..Len(events) : events[k].kind = "recognized"}) < MaxEvents
  /\ \E reason \in {"RecognizedSpeech", "NoMatch"} :
       \E txt \in (IF reason = "RecognizedSpeech" THEN Utterances ELSE { <<>> }) :
         /\ events' = Append(events, [kind |-> "recognized", reason |-> reason,
                                      text |-> txt])
         /\ recognized' = recognized_cb(recognized, reason, txt)
  /\ UNCHANGED << prog, pc, outcome, log, files, mainVars, blurVars, waitVars,
                  transcript, redactVars, redacted_text, done, session >>

\* lines 64-67: stop_cb, run on a session_stopped or a canceled event
sdk_stop_cb ==
  /\ prog = "pipeline" /\ session = "running"
  /\ \E kind \in {"session_stopped", "canceled"} :
       /\ \A k \in 1..Len(events) : events[k].kind # kind
       /\ events' = Append(events, [kind |-> kind, reason |-> None, text |-> <<>>])
  /\ done' = TRUE
  /\ UNCHANGED << prog, pc, outcome, log, files, mainVars, blurVars, waitVars,
                  transcript, redactVars, redacted_text, recognized, session >>

\* lines 82-83: while not done: time.sleep(.5)
transcribe_poll ==
  /\ prog = "pipeline" /\ pc = "listening"
  /\ pc' = IF done THEN "stop_recognition" ELSE "listening"
  /\ UNCHANGED << prog, outcome, log, files, mainVars, blurVars, waitVars,
                  transcript, redactVars, redacted_text, streamVars >>

\* line 85: stop_continuous_recognition(); no event is fired after it
transcribe_stop ==
  /\ prog = "pipeline" /\ pc = "stop_recognition"
  /\ session' = "stopped"
  /\ pc' = "join"
  /\ UNCHANGED << prog, outcome, log, files, mainVars, blurVars, waitVars,
                  transcript, redactVars, redacted_text, done, recognized, events >>

\* lines 87-88: full_text = " ".join(transcript); return full_text
transcribe_return ==
  /\ prog = "pipeline" /\ pc = "join"
  /\ transcript' = Some(join(<<" ">>, recognized))
  /\ log' = Append(log, "transcribe_return")
  /\ pc' = "pipeline_write_original"
  /\ UNCHANGED << prog, outcome, files, mainVars, blurVars, waitVars, redactVars,
                  redacted_text, streamVars >>

\* lines 144-145
pipeline_write_original ==
  /\ prog = "pipeline" /\ pc = "pipeline_write_original"
  /\ files' = write(files, STREAM_ORIGINAL, transcript[1])
  /\ log' = Append(log, "write_original")
  /\ pc' = "pipeline_redact_phi"
  /\ UNCHANGED << prog, outcome, mainVars, blurVars, waitVars, transcript,
                  redactVars, redacted_text, streamVars >>

\* lines 101-117: redact_phi of pipeline.py, one call for the whole text
pipeline_redact_phi ==
  /\ prog = "pipeline" /\ pc = "pipeline_redact_phi"
  /\ text' = transcript[1]
  /\ sent' = Append(sent, 0)
  /\ \E answered \in BOOLEAN :
       IF answered
       THEN /\ redacted_text' = Some(deidentify_text(transcript[1]))
            /\ deid_failed' = deid_failed
       ELSE /\ redacted_text' = Some(on_exception(transcript[1], <<>>))
            /\ deid_failed' = deid_failed \cup {0}
  /\ log' = Append(log, "redact_whole")
  /\ pc' = "pipeline_write_redacted"
  /\ UNCHANGED << prog, outcome, files, mainVars, blurVars, waitVars, transcript,
                  chunks, redacted_chunks, chunk_i, streamVars >>

\* lines 154-157
pipeline_write_redacted ==
  /\ prog = "pipeline" /\ pc = "pipeline_write_redacted"
  /\ files' = write(files, STREAM_REDACTED, redacted_text[1])
  /\ log' = Append(log, "write_redacted")
  /\ ends("completed")
  /\ UNCHANGED << prog, mainVars, blurVars, waitVars, transcript, redactVars,
                  redacted_text, streamVars >>

\* --------------------------------------------------------- specification
Next ==
  \/ main_credentials
  \/ main_download
  \/ main_upload
  \/ main_submit
  \/ blur_faces_open
  \/ blur_faces_frame
  \/ blur_faces_close
  \/ wait_status_check
  \/ wait_sleep
  \/ wait_files
  \/ main_write_original
  \/ redact_phi_split
  \/ redact_phi_chunk
  \/ redact_phi_join
  \/ main_write_redacted
  \/ main_merge
  \/ recover_main
  \/ recover_write_original
  \/ recover_write_redacted
  \/ pipeline_main
  \/ transcribe_start
  \/ sdk_recognized
  \/ sdk_stop_cb
  \/ transcribe_poll
  \/ transcribe_stop
  \/ transcribe_return
  \/ pipeline_write_original
  \/ pipeline_redact_phi
  \/ pipeline_write_redacted

Spec == Init /\ [][Next]_vars

\* the script keeps running: every call it makes returns
FairSpec == Spec /\ WF_vars(Next)

\* ======================================================================
\* Properties
\* ======================================================================
\* the event e has happened
InLog(e) == \E k \in 1..Len(log) : log[k] = e

\* every occurrence of event e comes after an occurrence of event d
Precedes(d, e) ==
  \A k \in 1..Len(log) : log[k] = e => \E j \in 1..(k - 1) : log[j] = d

\* redact_phi has returned
Redacted == InLog("redact_return")

\* the batch script has ended
BatchEnded == prog = "batch" /\ pc = "done"

\* per-chunk fail-open: chunk i keeps its text, every other chunk is redacted
FailOpenAt(i) ==
  join(<<>>, [k \in 1..Len(chunks) |->
                IF k - 1 = i THEN chunks[k] ELSE deidentify_text(chunks[k])])

\* C1: when the service fails for exactly one chunk i, the text redact_phi
\* returns holds the redacted output of every other chunk and the original
\* text of chunk i
C1_SingleFailureIsLocal ==
  \A i \in 0..(Len(chunks) - 1) :
    (Redacted /\ deid_failed = {i}) => redacted_text = Some(FailOpenAt(i))

\* C2: a failed call does not end the stage: when redact_phi returns, every
\* chunk index 0..n-1 has been sent to the service exactly once, in order
C2_EveryChunkSent ==
  Redacted => sent = [k \in 1..Len(chunks) |-> k - 1]

\* C3: once blur_faces has reported that the video cannot be opened, the
\* batch pipeline makes no status check, runs neither text redaction nor the
\* merge, ends as VideoOpenFailed and writes no artifact
C3_OpenFailedAborts ==
  (prog = "batch" /\ blur_ret = None) =>
    /\ polls = 0 /\ ~InLog("status_check_no_job")
    /\ ~InLog("redact_begin") /\ ~InLog("merge")
    /\ pc = "done" /\ outcome = "video_open_failed"
    /\ DOMAIN files \cap {BLURRED, ORIGINAL, REDACTED, FINAL} = {}

\* C4: when acquisition, upload and video redaction succeeded and the
\* submission was refused, the batch pipeline runs to completion with the
\* blurred video, without a transcript and without polling a job that was
\* never created
C4_SubmitFailureIsRecoverable ==
  (BatchEnded /\ sas_url # None /\ job_url = None /\ blur_ret = BLURRED) =>
    /\ outcome = "completed"
    /\ BLURRED \in DOMAIN files
    /\ ORIGINAL \notin DOMAIN files /\ REDACTED \notin DOMAIN files
    /\ ~InLog("status_check_no_job") /\ polls = 0

\* blur_faces has read some but not all frames of the video
BlurMidway == pc = "blur_loop" /\ 0 < frame_count /\ frame_count < total_frames

\* C5: polling and frame processing run concurrently: while blur_faces has
\* read some but not all frames and a job was submitted, a status check of
\* that job can take place
C5_PollingOverlapsBlur ==
  (prog = "batch" /\ BlurMidway /\ job_url # None) => ENABLED wait_status_check

\* what the code does instead: no status check is possible, and none has been
\* made, before blur_faces has returned
NoStatusCheckBeforeBlurReturns ==
  /\ (prog = "batch" /\ blur_ret = "pending") => ~ENABLED wait_status_check
  /\ Precedes("blur_return", "status_check")

\* C6: the merge starts only after blur_faces and wait_for_transcript have
\* both returned, and text redaction starts only after blur_faces has returned
C6_MergeBehindJoin ==
  prog = "batch" =>
    /\ Precedes("blur_return", "merge")
    /\ Precedes("wait_return", "merge")
    /\ Precedes("blur_return", "redact_begin")
    /\ (pc \in {"merge", "redact_phi", "redact_loop", "write_redacted"})
         => (blur_ret # "pending" /\ InLog("wait_return"))

C6_Witness ==
  prog = "batch" /\ InLog("merge") /\ InLog("redact_begin") /\ frame_count = 2

\* C7: when acquisition yields no video path the batch pipeline ends at
\* once: the download is the only collaborator call of the run
C7_AcquisitionFailureAborts ==
  (prog = "batch" /\ InLog("download") /\ video_path = None) =>
    /\ pc = "done" /\ outcome = "acquisition_failed"
    /\ log = <<"download">>
    /\ DOMAIN files \subseteq {VIDEO, VIDEO_ADAPTED}

C7_Witness ==
  prog = "batch" /\ InLog("download") /\ video_path = None /\ VIDEO \in DOMAIN files

\* C8: with the video redacted, a Failed job or a failed redaction call still
\* ends in the merge, run on the blurred video and the audio, and in
\* completion; after a Failed job no transcript file exists, after a failed
\* redaction call the redacted-transcript file holds the unredacted text
C8_TextFailuresAreRecoverable ==
  (BatchEnded /\ blur_ret = BLURRED /\ (status = "Failed" \/ deid_failed # {})) =>
    /\ outcome = "completed"
    /\ log[Len(log)] = "merge"
    /\ BLURRED \in DOMAIN files /\ AUDIO \in DOMAIN files
    /\ status = "Failed" =>
         (ORIGINAL \notin DOMAIN files /\ REDACTED \notin DOMAIN files)
    /\ deid_failed # {} =>
         (files[REDACTED] = transcript[1] /\ files[ORIGINAL] = transcript[1])

C8_Witness ==
  /\ BatchEnded /\ blur_ret = BLURRED /\ deid_failed = {1}
  /\ FINAL \in DOMAIN files
  /\ join(<<>>, [k \in 1..Len(chunks) |-> deidentify_text(chunks[k])]) # text

\* the other case of C8: the job ended Failed and the run completed
C8_FailedJobReached ==
  BatchEnded /\ blur_ret = BLURRED /\ status = "Failed" /\ FINAL \in DOMAIN files

\* C9: the chunks of redact_phi concatenated in order are its argument, and
\* when the service returns every chunk unchanged redact_phi returns its
\* argument
C9_SplitJoinIsLossless ==
  InLog("redact_begin") =>
    /\ join(<<>>, chunks) = text
    /\ (/\ Redacted /\ deid_failed = {}
        /\ \A k \in 1..Len(chunks) : deidentify_text(chunks[k]) = chunks[k])
         => redacted_text = Some(text)

C9_Witness ==
  /\ Redacted /\ deid_failed = {} /\ Len(chunks) = 2 /\ Len(chunks[2]) = 1
  /\ \A k \in 1..Len(chunks) : deidentify_text(chunks[k]) = chunks[k]
  /\ redacted_text = Some(text)

\* C10: redact_phi makes ceil(len(text) / chunk_size) chunks, none for the
\* empty text, and every chunk but the last has exactly chunk_size characters
C10_ChunkCount ==
  InLog("redact_begin") =>
    /\ Len(chunks) = (Len(text) + chunk_size - 1) \div chunk_size
    /\ (text = <<>> => Len(chunks) = 0)
    /\ \A k \in 1..(Len(chunks) - 1) : Len(chunks[k]) = chunk_size

C10_Witness ==
  /\ InLog("redact_begin") /\ Len(text) = 2 * chunk_size + 1
  /\ Len(chunks) = 3 /\ Len(chunks[3]) = 1

\* the empty case of C10: redact_phi called on the empty text
C10_EmptyTextReached == InLog("redact_begin") /\ text = <<>> /\ chunks = <<>>

\* offset of chunk k in the text when the chunks lie end to end from offset 0
RECURSIVE StartOf(_)
StartOf(k) == IF k = 1 THEN 0 ELSE StartOf(k - 1) + Len(chunks[k - 1])

\* C11: the chunks are contiguous spans of the text in increasing offset
\* order: the first starts at offset 0, each starts where the one before it
\* ends, the last ends at the end of the text, each holds the characters of
\* its span, and each has between 1 and chunk_size characters
C11_ChunksPartitionText ==
  InLog("redact_begin") =>
    /\ \A k \in 1..Len(chunks) :
         /\ 1 <= Len(chunks[k]) /\ Len(chunks[k]) <= chunk_size
         /\ StartOf(k) + Len(chunks[k]) <= Len(text)
         /\ chunks[k] = SubSeq(text, StartOf(k) + 1, StartOf(k) + Len(chunks[k]))
    /\ StartOf(Len(chunks) + 1) = Len(text)

C11_Witness ==
  /\ InLog("redact_begin") /\ Len(chunks) = 3 /\ StartOf(3) = 2 * chunk_size
  /\ chunks[2] # chunks[1] /\ chunks[3] # chunks[2]

\* each chunk put through the service, in chunk order
Chunkwise == [k \in 1..Len(chunks) |-> deidentify_text(chunks[k])]

RECURSIVE Concat(_)
\* the texts of a sequence one after the other, nothing between them
Concat(parts) == IF parts = <<>> THEN <<>> ELSE Head(parts) \o Concat(Tail(parts))

\* C12: when every chunk was redacted, redact_phi returns the service's
\* results in ascending chunk index with nothing added between them, which is
\* the text put through the service chunk by chunk
C12_RecombinedInOrder ==
  (Redacted /\ deid_failed = {}) =>
    /\ redacted_chunks = Chunkwise
    /\ redacted_text = Some(Concat(Chunkwise))

C12_Witness ==
  /\ Redacted /\ deid_failed = {} /\ Len(chunks) = 3
  /\ Chunkwise[1] # Chunkwise[2] /\ Chunkwise[2] # Chunkwise[3]
  /\ redacted_text # Some(text)

\* C13: submit_transcription_job returns a job handle exactly when the
\* service answered the POST with 201; on any other answer it returns no
\* handle (None, after printing the error)
C13_HandleIffCreated ==
  InLog("submit") =>
    /\ (job_url # None) <=> (submit_status = 201)
    /\ (submit_status # 201) => (job_url = None)

C13_Witness ==
  InLog("submit") /\ submit_status = 201 /\ job_url = "job_url" /\ polls = 1

\* a status that ends the job
Terminal(s) == s \in {"Succeeded", "Failed"}

\* the last status wait_for_transcript has seen is not terminal
LastNonTerminal == statuses # <<>> /\ ~Terminal(statuses[Len(statuses)])

\* wait_for_transcript is in its polling loop
Polling == pc \in {"wait_for_transcript", "wait_sleep"}

\* how many times event e has happened
Count(e) == Cardinality({k \in 1..Len(log) : log[k] = e})

\* C14: wait_for_transcript polls until it sees a terminal status and makes
\* no status check after one; a Failed status makes it return None without
\* fetching the manifest or the document; the job is submitted once only
C14_PollsUntilFirstTerminal ==
  prog = "batch" =>
    /\ \A k \in 1..(Len(statuses) - 1) : ~Terminal(statuses[k])
    /\ LastNonTerminal => Polling
    /\ InLog("wait_return") => (statuses # <<>> /\ Terminal(statuses[Len(statuses)]))
    /\ status = "Failed" =>
         /\ InLog("wait_return") /\ transcript = NoText
         /\ ~InLog("fetch_files") /\ ~InLog("fetch_content")
    /\ Count("submit") <= 1
    /\ Count("status_check") = Len(statuses)

C14_Witness ==
  /\ prog = "batch" /\ pc = "done"
  /\ statuses = <<"Running", "Failed">> /\ InLog("wait_return")

\* C17: two consecutive status checks have exactly one sleep between them,
\* and after a non-terminal status the next check comes only after the sleep
C17_OneSleepBetweenChecks ==
  /\ \A k \in 1..Len(log) :
       (log[k] = "status_check" /\ \E j \in (k + 1)..Len(log) : log[j] = "status_check")
         => (log[k + 1] = "sleep" /\ log[k + 2] = "status_check")
  /\ (LastNonTerminal /\ pc = "wait_for_transcript") => log[Len(log)] = "sleep"
  /\ Count("sleep") =
       Cardinality({k \in 1..Len(statuses) : ~Terminal(statuses[k])})
         - (IF pc = "wait_sleep" THEN 1 ELSE 0)

C17_Witness ==
  /\ statuses = <<"Running", "Running", "Succeeded">> /\ Count("sleep") = 2

RECURSIVE Spaced(_)
\* the phrases in order with one space between neighbours
Spaced(ps) ==
  IF ps = <<>> THEN <<>>
  ELSE IF Len(ps) = 1 THEN ps[1]
  ELSE Spaced(SubSeq(ps, 1, Len(ps) - 1)) \o <<" ">> \o ps[Len(ps)]

\* C15: after the statuses Running, Running, Succeeded and a manifest with a
\* "Transcription" entry whose phrases carry "display", wait_for_transcript
\* returns the displays in order with single spaces between them (and so
\* does the parsing of pipeline_recover.py for such a document)
C15_FlatDisplaysJoined ==
  /\ (/\ prog = "batch" /\ InLog("wait_return")
      /\ statuses = <<"Running", "Running", "Succeeded">>
      /\ has_transcription(manifest) /\ data.shape = "A")
       => transcript = Some(Spaced(data.phrases))
  /\ (prog = "recover" /\ InLog("download_json") /\ data.shape = "A")
       => transcript = Some(Spaced(data.phrases))

C15_Witness ==
  /\ prog = "batch" /\ InLog("wait_return")
  /\ statuses = <<"Running", "Running", "Succeeded">>
  /\ has_transcription(manifest) /\ data.shape = "A"
  /\ data.phrases = << <<"a", "a", "p">>, <<"p">> >>
  /\ transcript = Some(<<"a", "a", "p", " ", "p">>)

\* a transcription document has been fetched
Fetched == InLog("fetch_content") \/ InLog("download_json")

\* C16: a document whose phrases carry "nBest" yields the first candidates'
\* displays in order with single spaces between them; a document of neither
\* shape ends the extraction with an error, without a transcript returned or
\* written
C16_BothShapesExtracted ==
  Fetched =>
    /\ data.shape = "B" =>
         (outcome # "crashed" /\ transcript = Some(Spaced(data.phrases)))
    /\ data.shape \in {"X", "none"} =>
         /\ pc = "done" /\ outcome \in {"crashed", "unknown_structure", "no_phrases"}
         /\ (prog = "batch" => transcript = NoText)
         /\ ORIGINAL \notin DOMAIN files

\* C18: once the video has failed fatally, which is when the coordinator
\* wants the wait cancelled, a wait_for_transcript that has seen only
\* non-terminal statuses stops polling
C18_PollingIsCancellable ==
  (prog = "batch" /\ blur_ret = None /\ LastNonTerminal) => ~Polling

\* C19: wait_for_transcript does not return while the statuses it sees are
\* non-terminal, however many checks that takes, it has left its loop as soon
\* as a terminal status is seen, and a wait on a submitted job ends
C19_WaitsUntilTerminal ==
  /\ [](LastNonTerminal => (Polling /\ ~InLog("wait_return")))
  /\ [](Count("status_check") > 0 /\ ~LastNonTerminal => ~Polling)
  /\ (pc = "wait_for_transcript" /\ job_url # None) ~> ~Polling

C19_Witness ==
  /\ polls = MaxPolls /\ InLog("wait_return")
  /\ \A k \in 1..(MaxPolls - 1) : statuses[k] = "Running"

\* C20: blur_faces writes the frames it reads, in the order read and each one
\* before the next is read: at every turn of its loop, and when it returns,
\* as many frames are written as were read, the k-th written frame is made
\* from the k-th read one, and on return these are all frames of the input
C20_FramesPreserved ==
  prog = "batch" =>
    /\ \A k \in 1..Len(out) : k <= Len(frames_read) /\ out[k].src = frames_read[k]
    /\ Len(frames_read) - Len(out) \in {0, 1}
    /\ pc = "blur_loop" => Len(out) = Len(frames_read)
    /\ blur_ret = BLURRED =>
         /\ Len(out) = Len(frames_read) /\ Len(out) = total_frames
         /\ files[BLURRED] = out

C20_Witness ==
  /\ blur_ret = BLURRED /\ Len(frames_read) = 2 /\ Len(out) = 2
  /\ ~out[1].blurred /\ out[2].blurred

\* C21: a frame in which the detector found no region is written with the
\* pixels it was read with, and in every written frame the pixels outside the
\* detected regions are the pixels read
C21_OnlyRegionsModified ==
  prog = "batch" =>
    \A k \in 1..Len(out) :
      /\ out[k].faces = {} => out[k].px = frame_pixels(out[k].src)
      /\ \A p \in Pixels :
           (\A r \in out[k].faces : p \notin r)
             => out[k].px[p] = frame_pixels(out[k].src)[p]

C21_Witness ==
  /\ blur_ret = BLURRED /\ Len(out) = 2
  /\ out[1].faces = {} /\ out[1].px = frame_pixels(1)
  /\ out[2].faces = {FaceRegion}
  /\ \E p \in Pixels : out[2].px[p] # frame_pixels(2)[p]
  /\ \E p \in Pixels : p \notin FaceRegion /\ out[2].px[p] = frame_pixels(2)[p]

\* C22: a detection error on a frame does not end blur_faces: the frame is
\* written with the pixels it was read with, as a frame without regions, and
\* the run has not ended by the error
C22_DetectionErrorIsSkipped ==
  prog = "batch" =>
    \A k \in detect_failed :
      /\ outcome # "crashed"
      /\ k <= Len(out) /\ out[k].src = k
      /\ out[k].faces = {} /\ out[k].px = frame_pixels(k)

\* C23: after an upload that yielded no URL, no transcription job is
\* submitted
C23_NoSubmitWithoutAudioUrl ==
  (prog = "batch" /\ InLog("upload") /\ sas_url = None) => ~InLog("submit")

\* line 269: the artifacts the last print of a run that ended as how names
announced(how) == IF how = "completed" THEN {FINAL} ELSE {}

\* a text-side stage of the run has failed
TextSideFailed ==
  InLog("status_check_no_job") \/ status = "Failed" \/ deid_failed # {}
    \/ (InLog("wait_return") /\ transcript = NoText)

\* C24: the report of an ended run names only artifacts that exist, and the
\* report of full success is not given by a run in which a text-side stage
\* failed
C24_ReportIsFaithful ==
  BatchEnded =>
    /\ announced(outcome) \subseteq DOMAIN files
    /\ outcome = "completed" => ~TextSideFailed

\* C25: redact_phi returns either the redacted outputs of all chunks, one
\* after the other, when no call failed, or exactly its argument when a call
\* failed, and a failed call does not end the run
C25_RedactAllOrNothing ==
  /\ Redacted =>
       \/ deid_failed = {} /\ redacted_text = Some(Concat(Chunkwise))
       \/ deid_failed # {} /\ redacted_text = Some(text)
  /\ InLog("redact_whole") =>
       \/ deid_failed = {} /\ redacted_text = Some(deidentify_text(text))
       \/ deid_failed # {} /\ redacted_text = Some(text)
  /\ deid_failed # {} =>
       (outcome # "crashed" /\ (Redacted \/ InLog("redact_whole")))
  /\ (InLog("redact_begin") /\ pc = "done") => Redacted

C25_Witness ==
  /\ Redacted /\ deid_failed = {1} /\ Len(chunks) = 2
  /\ redacted_chunks = <<deidentify_text(chunks[1])>>
  /\ redacted_chunks[1] # chunks[1]
  /\ redacted_text = Some(text)

\* the other script of C25: the single call of pipeline.py raised
C25_WholeTextFailureReached ==
  /\ InLog("redact_whole") /\ deid_failed = {0}
  /\ deidentify_text(text) # text /\ redacted_text = Some(text)

\* the event is a session_stopped or a canceled event
IsStop(e) == e.kind \in {"session_stopped", "canceled"}

\* the event is a recognized event with reason RecognizedSpeech
IsSpeech(e) == e.kind = "recognized" /\ e.reason = "RecognizedSpeech"

\* the texts of the RecognizedSpeech events fired so far, in arrival order
SpeechTexts ==
  LET speech == SelectSeq(events, IsSpeech)
  IN  [k \in 1..Len(speech) |-> speech[k].text]

\* C26: transcribe_audio leaves its waiting loop, and returns, only after a
\* session_stopped or canceled event has set done; what it returns is the
\* texts of the RecognizedSpeech events fired before, in arrival order, with
\* single spaces between them; NoMatch events add nothing
C26_ReturnsSpeechAfterStop ==
  prog = "pipeline" =>
    /\ done <=> \E k \in 1..Len(events) : IsStop(events[k])
    /\ (pc \in {"stop_recognition", "join"} \/ InLog("transcribe_return")) => done
    /\ recognized = SpeechTexts
    /\ InLog("transcribe_return") =>
         (session = "stopped" /\ transcript = Some(Spaced(SpeechTexts)))

C26_Witness ==
  /\ InLog("transcribe_return")
  /\ Len(events) = 4
  /\ IsSpeech(events[1]) /\ events[1].text = <<"a">>
  /\ events[2].kind = "recognized" /\ events[2].reason = "NoMatch"
  /\ IsSpeech(events[3]) /\ events[3].text = <<"p", "a">>
  /\ events[4].kind = "canceled"
  /\ transcript = Some(<<"a", " ", "p", "a">>)

\* C27 as stated: the original transcript is written before redaction begins,
\* it is on disk whenever wait_for_transcript returned a text, and no
\* transcript file is written when it returned None
C27_OriginalKeptWheneverObtained ==
  prog = "batch" =>
    /\ Precedes("write_original", "redact_begin")
    /\ (InLog("wait_return") /\ transcript # NoText /\ pc # "write_original")
         => ORIGINAL \in DOMAIN files
    /\ (InLog("wait_return") /\ transcript = NoText)
         => (ORIGINAL \notin DOMAIN files /\ REDACTED \notin DOMAIN files)

\* C27, amended: the original transcript is written before redaction begins
\* and holds the transcript whatever redaction does; it is on disk whenever
\* wait_for_transcript returned a non-empty text; no transcript file is
\* written when it returned None or the empty text
C27_OriginalKeptWhenNonEmpty ==
  prog = "batch" =>
    /\ Precedes("write_original", "redact_begin")
    /\ (InLog("wait_return") /\ truthy(transcript) /\ pc # "write_original")
         => (ORIGINAL \in DOMAIN files /\ files[ORIGINAL] = transcript[1])
    /\ (InLog("wait_return") /\ ~truthy(transcript))
         => (ORIGINAL \notin DOMAIN files /\ REDACTED \notin DOMAIN files)

C27_Witness ==
  /\ BatchEnded /\ truthy(transcript) /\ deid_failed # {}
  /\ ORIGINAL \in DOMAIN files /\ files[ORIGINAL] = transcript[1]
  /\ Precedes("write_original", "redact_begin") /\ InLog("redact_begin")

\* the case the amendment adds: a succeeded job with an empty transcript
C27_EmptyTranscriptReached ==
  /\ BatchEnded /\ transcript = Some(<<>>) /\ outcome = "completed"
  /\ ORIGINAL \notin DOMAIN files /\ REDACTED \notin DOMAIN files

\* C28: after a Succeeded status the document fetched is that of the first
\* manifest entry of kind "Transcription", no other entry is fetched, and with
\* no such entry wait_for_transcript returns None, after which main goes on as
\* after a Failed job: to the merge, with no transcript file written
C28_FirstTranscriptionEntry ==
  (prog = "batch" /\ InLog("fetch_files")) =>
    /\ Count("fetch_content") <= 1
    /\ has_transcription(manifest) =>
         /\ InLog("fetch_content")
         /\ manifest[fetched_entry] = "Transcription"
         /\ \A j \in 1..(fetched_entry - 1) : manifest[j] # "Transcription"
    /\ ~has_transcription(manifest) =>
         /\ fetched_entry = 0 /\ ~InLog("fetch_content")
         /\ InLog("wait_return") /\ transcript = NoText
         /\ pc \in {"merge", "done"} /\ outcome \in {"running", "completed"}
         /\ ~InLog("redact_begin")
         /\ ORIGINAL \notin DOMAIN files /\ REDACTED \notin DOMAIN files

C28_Witness ==
  /\ prog = "batch" /\ InLog("wait_return")
  /\ manifest = <<"Transcription", "TranscriptionReport", "Transcription">>
  /\ fetched_entry = 1 /\ truthy(transcript)

\* the other case of C28: a manifest without a "Transcription" entry
C28_NoEntryReached ==
  /\ BatchEnded /\ manifest = <<"TranscriptionReport">> /\ transcript = NoText
  /\ outcome = "completed" /\ status = "Succeeded"

====
